---- MODULE Spec2Model ----
(***************************************************************************)
(* A model of carsus.io.vald.VALDReader (src/carsus/io/vald/vald.py).      *)
(*                                                                         *)
(* Text is a sequence of one-character strings.  A table (a pandas         *)
(* DataFrame) is a record [cols, rows]: cols the column names in order,    *)
(* rows a sequence of rows, each a sequence of cells aligned with cols.    *)
(* A cell is the text of the field, or NaN for a missing value.  An        *)
(* optional value (a Python attribute that may be None) is a sequence of   *)
(* length 0 (None) or 1.                                                   *)
(***************************************************************************)
EXTENDS Integers, Sequences, FiniteSets, TLC

(* ------------------------------ bounds -------------------------------- *)

\* lines in a source file handed to read_vald_raw on its own
MaxLines == 2
\* lines in the source file of a reader followed through its life
MaxReaderLines == 1
\* rows of a table handed to parse_vald by a caller
MaxExtRows == 3

(* ------------------------------- text --------------------------------- *)

None == <<>>
Some(x) == <<x>>
NaN == <<"NaN">>

Max(a, b) == IF a >= b THEN a ELSE b

\* the element of a one-element set: The({e(x) : x \in {v}}) is e with x
\* naming the value of v, computed once
The(S) == CHOOSE x \in S : TRUE

RECURSIVE Flatten(_)
Flatten(ss) == IF ss = <<>> THEN <<>> ELSE Head(ss) \o Flatten(Tail(ss))

\* sep.join(parts)
RECURSIVE Join(_, _)
Join(sep, parts) ==
    IF parts = <<>> THEN <<>>
    ELSE IF Len(parts) = 1 THEN parts[1]
    ELSE parts[1] \o sep \o Join(sep, Tail(parts))

\* s.split(sep) on one separator character: always at least one part
RECURSIVE SplitOn(_, _)
SplitOn(sep, s) ==
    IF \A i \in 1..Len(s) : s[i] # sep THEN <<s>>
    ELSE LET k == CHOOSE i \in 1..Len(s) :
                      s[i] = sep /\ \A j \in 1..(i - 1) : s[j] # sep
         IN  <<SubSeq(s, 1, k - 1)>> \o SplitOn(sep, SubSeq(s, k + 1, Len(s)))

\* s.replace(ch, "")
StrReplace(s, ch) == SelectSeq(s, LAMBDA c : c # ch)

(* --------------------- the row pattern (line 113) --------------------- *)

\* [a-zA-Z], cut down to the letters the files of the model hold
Letters == {"T", "O", "H"}
Digits == {"0", "1", "2", "3", "4", "5", "6", "7", "8", "9"}
Whitespace == {" ", "\n", "\t"}
\* the range *-? of the character class
StarToQuestion ==
    {"*", "+", ",", "-", ".", "/", ":", ";", "<", "=", ">", "?"} \cup Digits
\* the class [\s*-?\d+[\.\d+]
FieldClass == Whitespace \cup StarToQuestion \cup Digits \cup {"+", "[", "."}

\* the end (exclusive) of the longest run of characters of set at or after p
RECURSIVE RunEnd(_, _, _)
RunEnd(buf, p, set) ==
    IF p <= Len(buf) /\ buf[p] \in set THEN RunEnd(buf, p + 1, set) ELSE p

At(buf, p, ch) == p <= Len(buf) /\ buf[p] = ch

\* The end (exclusive) of the match of data_match that starts at p, 0 when
\* there is none: ' letters+ space digits+ ' , class+ , ]*  with every
\* quantifier greedy, so class+ gives back characters up to the last comma
\* of its run.
MatchAt(buf, p) ==
    IF ~At(buf, p, "'") THEN 0
    ELSE LET a == RunEnd(buf, p + 1, Letters) IN
    IF a = p + 1 \/ ~At(buf, a, " ") THEN 0
    ELSE LET d == RunEnd(buf, a + 1, Digits) IN
    IF d = a + 1 \/ ~At(buf, d, "'") \/ ~At(buf, d + 1, ",") THEN 0
    ELSE LET q == d + 2
             r == RunEnd(buf, q, FieldClass)
             commas == {e \in (q + 1)..(r - 1) : buf[e] = ","}
         IN  IF commas = {} THEN 0
             ELSE LET e == CHOOSE x \in commas : \A y \in commas : y <= x
                  IN  RunEnd(buf, e + 1, {"]"})

\* data_match.findall(text): the non-overlapping matches, leftmost first
RECURSIVE FindAllFrom(_, _)
FindAllFrom(buf, p) ==
    IF p > Len(buf) THEN <<>>
    ELSE LET e == MatchAt(buf, p)
         IN  IF e = 0 THEN FindAllFrom(buf, p + 1)
             ELSE <<SubSeq(buf, p, e - 1)>> \o FindAllFrom(buf, e)

FindAll(buf) == FindAllFrom(buf, 1)

(* ----------------------------- tables --------------------------------- *)

\* VALDReader.vald_columns
vald_columns ==
    << "elm_ion", "wl_air", "log_gf", "e_low", "j_lo", "e_up", "j_up",
       "lande_lower", "lande_upper", "lande_mean", "rad", "stark", "waals" >>

Table(cols, rows) == [cols |-> cols, rows |-> rows]

ColIndex(t, name) == CHOOSE i \in 1..Len(t.cols) : t.cols[i] = name
HasCol(t, name) == \E i \in 1..Len(t.cols) : t.cols[i] = name
Column(t, name) == [r \in 1..Len(t.rows) |-> t.rows[r][ColIndex(t, name)]]

\* t[name] = values (an existing column, replaced in place)
SetCol(t, name, values) ==
    Table(t.cols,
          [r \in 1..Len(t.rows) |->
              [c \in 1..Len(t.cols) |->
                  IF c = ColIndex(t, name) THEN values[r] ELSE t.rows[r][c]]])

\* t[names] = ... for new columns, appended in order
AddCols(t, names, values) ==
    Table(t.cols \o names, [r \in 1..Len(t.rows) |-> t.rows[r] \o values[r]])

\* del t[name]
DelCol(t, name) ==
    LET k == ColIndex(t, name)
        drop(s) == SubSeq(s, 1, k - 1) \o SubSeq(s, k + 1, Len(s))
    IN  Table(drop(t.cols), [r \in 1..Len(t.rows) |-> drop(t.rows[r])])

(* ---------------------- pd.read_csv (lines 116-120) ------------------- *)

RECURSIVE MaxLen(_)
MaxLen(ss) == IF ss = <<>> THEN 0 ELSE Max(Len(Head(ss)), MaxLen(Tail(ss)))

\* the cells of one line of tokens: an empty field is a missing value, a
\* short line is padded with missing values, and with index_col=False the
\* fields beyond the names are dropped
CsvRow(toks, width) ==
    [c \in 1..width |-> IF c <= Len(toks) /\ toks[c] # <<>> THEN toks[c] ELSE NaN]

\* the lines read_csv reads (blank lines are skipped) and their fields
CsvLines(text) == SelectSeq(SplitOn("\n", text), LAMBDA l : l # <<>>)
CsvTokens(text) == The({[i \in 1..Len(ls) |-> SplitOn(",", ls[i])] :
                           ls \in {CsvLines(text)}})

\* read_csv as it behaves when no names are passed: nothing to read is an
\* error
ReadCsvEmptyRaises(text, names, strict) ==
    IF text = <<>> THEN [outcome |-> "EmptyDataError", table |-> None]
    ELSE The({ [outcome |-> "ok",
                table |-> Some(Table(names,
                    [i \in 1..Len(toks) |-> CsvRow(toks[i], Len(names))]))] :
               toks \in {CsvTokens(text)} })

\* read_csv were it to reject a line with fewer values than names
ReadCsvShortRaises(text, names, strict) ==
    The({ IF \E i \in 1..Len(toks) :
                Len(SelectSeq(toks[i], LAMBDA f : f # <<>>)) < Len(names)
          THEN [outcome |-> "ParserError", table |-> None]
          ELSE [outcome |-> "ok",
                table |-> Some(Table(names,
                    [i \in 1..Len(toks) |-> CsvRow(toks[i], Len(names))]))] :
          toks \in {CsvTokens(text)} })

\* pd.read_csv(StringIO(text), names=names, index_col=False).  No header
\* row is read; text with no line at all gives a table of the names and no
\* rows.  The number of fields expected of every later line is that of the
\* first line, or of the names when there are more names.  A later line
\* with more fields is an error in the releases of the library whose
\* tokenizer checks it when names are passed (strict) and is cut to the
\* expected width in the others.  The conversion of the numeric columns to
\* floats is not modelled: a cell keeps its text.
ReadCsv(text, names, strict) ==
    The({ IF strict /\ \E i \in 2..Len(toks) :
                          Len(toks[i]) > Max(Len(toks[1]), Len(names))
          THEN [outcome |-> "ParserError", table |-> None]
          ELSE [outcome |-> "ok",
                table |-> Some(Table(names,
                    [i \in 1..Len(toks) |-> CsvRow(toks[i], Len(names))]))] :
          toks \in {CsvTokens(text)} })

(* --------------------------- source files ----------------------------- *)

Repeat(s, n) == Flatten([i \in 1..n |-> s])

\* a data line of n numeric fields after the quoted prefix, each followed
\* by a comma as in the format comment of lines 109-111
RowLine(n) == <<"'", "T", "O", " ", "1", "'", ",">> \o Repeat(<<"1", ",">>, n)

LineKinds == {"noise", "row12", "row11", "cont"}

LineText(kind) ==
    CASE kind = "noise" -> <<"T", " ", "O">>
      [] kind = "row12" -> RowLine(12)
      [] kind = "row11" -> RowLine(11)
      [] kind = "cont"  -> <<"1", ",", "1", ",">>

\* A file is named by the kinds of its lines; its text is the lines, each
\* ended by a newline.
FilesUpTo(n) == UNION {[1..k -> LineKinds] : k \in 0..n}
FileNames == FilesUpTo(MaxLines)
ReaderFiles == FilesUpTo(MaxReaderLines)
FileText(fn) == Flatten([i \in 1..Len(fn) |-> LineText(fn[i]) \o <<"\n">>])

\* carsus.io.util.read_from_buffer: the decoded content and its checksum,
\* or a fetch error
ReadFromBuffer(fn, fetchOk) ==
    IF fetchOk
    THEN [outcome |-> "ok", text |-> FileText(fn), checksum |-> <<"md5", fn>>]
    ELSE [outcome |-> "FetchError", text |-> <<>>, checksum |-> <<>>]

(* ----------------------- parse_vald (lines 138-145) ------------------- *)

\* Series.str.replace("'", "") of one cell: a missing value stays missing
StripQuotes(cell) == IF cell = NaN THEN NaN ELSE StrReplace(cell, "'")

\* Series.str.split(" ", expand=True): every cell is split on every space,
\* and the frame has as many columns as the longest list of parts (none for
\* a column with no row); shorter rows are padded with missing values.
SplitExpand(cells) ==
    The({ [width |-> MaxLen(parts),
           rows  |-> [r \in 1..Len(cells) |->
                         [c \in 1..MaxLen(parts) |->
                             IF c <= Len(parts[r]) THEN parts[r][c] ELSE NaN]]] :
          parts \in {[r \in 1..Len(cells) |->
                         IF cells[r] = NaN THEN <<>> ELSE SplitOn(" ", cells[r])]} })

\* The statements of parse_vald on the table object frame (lines 140-145).
\* The result's table is that object as the call leaves it: an error
\* raised by a statement keeps what the statements before it assigned.
\* Assigning a frame to the two keys raises unless it has two columns.
ParseValdOn(frame) ==
    IF ~HasCol(frame, "elm_ion") THEN [outcome |-> "KeyError", table |-> frame]
    ELSE The({ The({ IF split.width # 2
                     THEN [outcome |-> "ValueError", table |-> stripped]
                     ELSE [outcome |-> "ok",
                           table |-> DelCol(AddCols(stripped,
                                                    <<"molecule", "ion_charge">>,
                                                    split.rows),
                                            "elm_ion")] :
                     split \in {SplitExpand(Column(stripped, "elm_ion"))} }) :
               stripped \in {SetCol(frame, "elm_ion",
                                    [r \in 1..Len(frame.rows) |->
                                        StripQuotes(Column(frame, "elm_ion")[r])])} })

(* ------------------------------ state --------------------------------- *)

VARIABLES
    fname,        \* self.fname
    _vald_raw,    \* self._vald_raw: None or the cached raw table
    _vald,        \* self._vald: None or the cached parsed table
    version,      \* self.version: unset (None) or the checksum
    store,        \* the tables of the HDF file at the destination, by key
    handleOpen,   \* whether a handle on the destination is open
    ext,          \* a table owned by a caller of parse_vald, or None
    extIn,        \* history: that table as the last call of parse_vald got it
    fetchedNow,   \* history: calls of read_from_buffer by the last operation
    fetchedBefore,\* history: whether this instance called it before that
    last,         \* history: the last operation and how it ended
    ret,          \* history: the table the last operation returned, or None
    rawAtLoad,    \* history: the raw table as it was when it was cached
    valdAtLoad,   \* history: the parsed table as it was when it was cached
    storeBefore   \* history: the store as the last operation found it

vars == << fname, _vald_raw, _vald, version, store, handleOpen, ext, extIn,
           fetchedNow, fetchedBefore, last, ret, rawAtLoad, valdAtLoad,
           storeBefore >>

Outcome(op, how) == [op |-> op, outcome |-> how]

(* ------------------ read_vald_raw (lines 104-122) --------------------- *)

\* The fname argument only feeds the log line: the fetch reads self.fname.
read_vald_raw(fn, fetchOk, strict) ==
    The({ IF b.outcome # "ok"
          THEN [outcome |-> b.outcome, table |-> None, checksum |-> None]
          ELSE The({ [outcome |-> c.outcome, table |-> c.table,
                      checksum |-> IF c.outcome = "ok" THEN Some(b.checksum)
                                   ELSE None] :
                     c \in {ReadCsv(Join(<<"\n">>, FindAll(b.text)),
                                    vald_columns, strict)} }) :
          b \in {ReadFromBuffer(fn, fetchOk)} })

(* ------------------- the properties (lines 74-84) --------------------- *)

\* the vald_raw property without the test of line 76
vald_raw_NoCacheCheck(raw, ver, fn, fetchOk, strict) ==
    The({ IF r.outcome = "ok"
          THEN [outcome |-> "ok", value |-> r.table, raw |-> r.table,
                version |-> r.checksum, fetched |-> 1]
          ELSE [outcome |-> r.outcome, value |-> None, raw |-> raw,
                version |-> ver, fetched |-> 1] :
          r \in {read_vald_raw(fn, fetchOk, strict)} })

\* the vald_raw property without the assignment of line 77
vald_raw_NotStored(raw, ver, fn, fetchOk, strict) ==
    IF raw # None
    THEN [outcome |-> "ok", value |-> raw, raw |-> raw, version |-> ver,
          fetched |-> 0]
    ELSE The({ [outcome |-> r.outcome, value |-> r.table, raw |-> None,
                version |-> ver, fetched |-> 1] :
               r \in {read_vald_raw(fn, fetchOk, strict)} })

\* the vald_raw property on a reader whose fields are raw and ver: the
\* fields after the access, the value returned, and whether it fetched
vald_raw(raw, ver, fn, fetchOk, strict) ==
    IF raw # None
    THEN [outcome |-> "ok", value |-> raw, raw |-> raw, version |-> ver,
          fetched |-> 0]
    ELSE The({ IF r.outcome = "ok"
               THEN [outcome |-> "ok", value |-> r.table, raw |-> r.table,
                     version |-> r.checksum, fetched |-> 1]
               ELSE [outcome |-> r.outcome, value |-> None, raw |-> None,
                     version |-> ver, fetched |-> 1] :
               r \in {read_vald_raw(fn, fetchOk, strict)} })

\* parse_vald(vald_raw=None): the statements run on a copy of the raw table
parse_vald(raw, ver, fn, fetchOk, strict) ==
    The({ IF g.outcome # "ok"
          THEN [outcome |-> g.outcome, value |-> None, raw |-> g.raw,
                version |-> g.version, fetched |-> g.fetched]
          ELSE The({ [outcome |-> p.outcome,
                      value |-> IF p.outcome = "ok" THEN Some(p.table) ELSE None,
                      raw |-> g.raw, version |-> g.version,
                      fetched |-> g.fetched] :
                     p \in {ParseValdOn(g.value[1])} }) :
          g \in {vald_raw(raw, ver, fn, fetchOk, strict)} })

\* the vald property
vald(raw, parsed, ver, fn, fetchOk, strict) ==
    IF parsed # None
    THEN [outcome |-> "ok", value |-> parsed, raw |-> raw, parsed |-> parsed,
          version |-> ver, fetched |-> 0]
    ELSE The({ [outcome |-> p.outcome, value |-> p.value, raw |-> p.raw,
                parsed |-> p.value, version |-> p.version,
                fetched |-> p.fetched] :
               p \in {parse_vald(raw, ver, fn, fetchOk, strict)} })

(* ----------------------- to_hdf (lines 154-156) ----------------------- *)

NoTables == [k \in {} |-> None]

\* HDFStore.put(key, table)
Put(tables, key, t) ==
    [k \in (DOMAIN tables) \cup {key} |-> IF k = key THEN t ELSE tables[k]]

\* pd.HDFStore(fname, mode): what the file holds once it is open
\* (opening in a mode that keeps the content)
HDFStoreOpenKeeps(tables, mode) == tables

HDFStoreOpen(tables, mode) == IF mode = "w" THEN NoTables ELSE tables

\* (a close that only the normal end of the block reaches)
HDFStoreExitOnSuccess(open, outcome) == IF outcome = "ok" THEN FALSE ELSE open

\* leaving the with block: whether the handle is still open afterwards
HDFStoreExit(open, outcome) == FALSE

\* what a to_hdf call leaves: the reader's fields, the tables of the
\* destination, and the handle as the exit of the with block leaves it
Left(how, r, p, v, f, tbs) ==
    [outcome |-> how, value |-> None, raw |-> r, parsed |-> p, version |-> v,
     fetched |-> f, tables |-> tbs, open |-> HDFStoreExit(TRUE, how)]

\* The body of the with block (lines 155-156) on the tables the open left
\* and the result g of evaluating self.vald_raw.  io names the store
\* operation that fails, if any.
WithBody(opened, g, parsed, fn, fetchOk, strict, io) ==
    IF g.outcome # "ok"
    THEN Left(g.outcome, g.raw, parsed, g.version, g.fetched, opened)
    ELSE IF io = "put_raw"
    THEN Left("WriteError", g.raw, parsed, g.version, g.fetched, opened)
    ELSE The({ IF v.outcome # "ok"
               THEN Left(v.outcome, v.raw, v.parsed, v.version,
                         g.fetched + v.fetched,
                         Put(opened, "/vald_raw", g.value[1]))
               ELSE IF io = "put_vald"
               THEN Left("WriteError", v.raw, v.parsed, v.version,
                         g.fetched + v.fetched,
                         Put(opened, "/vald_raw", g.value[1]))
               ELSE Left("ok", v.raw, v.parsed, v.version,
                         g.fetched + v.fetched,
                         Put(Put(opened, "/vald_raw", g.value[1]),
                             "/vald", v.value[1])) :
               v \in {vald(g.raw, parsed, g.version, fn, fetchOk, strict)} })

NotOpened(raw, parsed, ver, tables, how, fetched) ==
    [outcome |-> how, value |-> None, raw |-> raw, parsed |-> parsed,
     version |-> ver, fetched |-> fetched, tables |-> tables, open |-> FALSE]

\* to_hdf were self.vald_raw evaluated before the store is opened
to_hdf_FetchFirst(raw, parsed, ver, fn, tables, fetchOk, strict, io) ==
    The({ IF g.outcome # "ok"
          THEN NotOpened(g.raw, parsed, g.version, tables, g.outcome, g.fetched)
          ELSE IF io = "open"
          THEN NotOpened(g.raw, parsed, g.version, tables, "OpenError", g.fetched)
          ELSE WithBody(HDFStoreOpen(tables, "w"), g, parsed, fn, fetchOk,
                        strict, io) :
          g \in {vald_raw(raw, ver, fn, fetchOk, strict)} })

\* to_hdf on a reader with fields raw, parsed and ver, the destination
\* holding tables: the store is opened for writing, then the with block runs
to_hdf(raw, parsed, ver, fn, tables, fetchOk, strict, io) ==
    IF io = "open"
    THEN NotOpened(raw, parsed, ver, tables, "OpenError", 0)
    ELSE The({ WithBody(opened, g, parsed, fn, fetchOk, strict, io) :
               opened \in {HDFStoreOpen(tables, "w")},
               g \in {vald_raw(raw, ver, fn, fetchOk, strict)} })

(* ----------------------------- actions -------------------------------- *)

\* a file some other program left at the destination
ForeignTables == Put(NoTables, "/other", Table(<<"x">>, <<>>))

IoFaults == {"none", "open", "put_raw", "put_vald"}

\* __init__ (lines 66-72): configuration only
Fresh(fn) ==
    /\ fname = fn
    /\ _vald_raw = None
    /\ _vald = None
    /\ version = None
    /\ fetchedNow = 0
    /\ fetchedBefore = FALSE
    /\ ret = None
    /\ rawAtLoad = None
    /\ valdAtLoad = None

Init ==
    /\ \E fn \in ReaderFiles : Fresh(fn)
    /\ store \in {NoTables, ForeignTables}
    /\ handleOpen = FALSE
    /\ ext = None
    /\ extIn = None
    /\ last = Outcome("__init__", "ok")
    /\ storeBefore = store

\* What the environment decides for one operation: whether the fetch
\* succeeds and whether the library rejects an overlong line.  Neither is
\* consulted by an operation that finds the raw table cached.
Envs(fetching) ==
    IF fetching THEN {<<FALSE, TRUE>>, <<TRUE, TRUE>>, <<TRUE, FALSE>>}
    ELSE {<<TRUE, TRUE>>}

\* the fields and the history after an operation with result r
Commit(op, r, rawNew, parsedNew) ==
    /\ _vald_raw' = rawNew
    /\ _vald' = parsedNew
    /\ version' = r.version
    /\ fetchedNow' = r.fetched
    /\ fetchedBefore' = (fetchedBefore \/ fetchedNow > 0)
    /\ last' = Outcome(op, r.outcome)
    /\ ret' = r.value
    /\ rawAtLoad' = IF _vald_raw = None THEN r.raw ELSE rawAtLoad
    /\ valdAtLoad' = IF _vald = None THEN parsedNew ELSE valdAtLoad
    /\ storeBefore' = store

\* VALDReader(fname=fn): a new instance takes the place of the old one
Construct ==
    /\ \E fn \in ReaderFiles :
          /\ fname' = fn
          /\ _vald_raw' = None
          /\ _vald' = None
          /\ version' = None
          /\ fetchedNow' = 0
          /\ fetchedBefore' = FALSE
          /\ ret' = None
          /\ rawAtLoad' = None
          /\ valdAtLoad' = None
    /\ last' = Outcome("__init__", "ok")
    /\ storeBefore' = store
    /\ UNCHANGED << store, handleOpen, ext, extIn >>

\* reader.vald_raw
GetValdRaw ==
    /\ \E env \in Envs(_vald_raw = None) :
          \E r \in {vald_raw(_vald_raw, version, fname, env[1], env[2])} :
              Commit("vald_raw", r, r.raw, _vald)
    /\ UNCHANGED << fname, store, handleOpen, ext, extIn >>

\* reader.vald
GetVald ==
    /\ \E env \in Envs(_vald_raw = None) :
          \E r \in {vald(_vald_raw, _vald, version, fname, env[1], env[2])} :
              Commit("vald", r, r.raw, r.parsed)
    /\ UNCHANGED << fname, store, handleOpen, ext, extIn >>

\* reader.read_vald_raw(): nothing is cached
CallReadValdRaw ==
    /\ \E env \in Envs(TRUE) :
          \E r \in {read_vald_raw(fname, env[1], env[2])} :
              /\ last' = Outcome("read_vald_raw", r.outcome)
              /\ ret' = r.table
    /\ fetchedNow' = 1
    /\ fetchedBefore' = (fetchedBefore \/ fetchedNow > 0)
    /\ storeBefore' = store
    /\ UNCHANGED << fname, _vald_raw, _vald, version, store, handleOpen, ext,
                    extIn, rawAtLoad, valdAtLoad >>

\* reader.parse_vald(): nothing is cached beyond what vald_raw caches
CallParseVald ==
    /\ \E env \in Envs(_vald_raw = None) :
          \E r \in {parse_vald(_vald_raw, version, fname, env[1], env[2])} :
              Commit("parse_vald", r, r.raw, _vald)
    /\ UNCHANGED << fname, store, handleOpen, ext, extIn >>

\* reader.parse_vald(vald_raw=reader.vald_raw): the statements of
\* parse_vald run on the cached table itself, and return it
CallParseValdOwn ==
    /\ \E env \in Envs(_vald_raw = None) :
          \E g \in {vald_raw(_vald_raw, version, fname, env[1], env[2])} :
              IF g.outcome # "ok"
              THEN Commit("parse_vald_own", g, g.raw, _vald)
              ELSE \E p \in {ParseValdOn(g.value[1])} :
                      Commit("parse_vald_own",
                             [g EXCEPT !.outcome = p.outcome,
                                       !.value = IF p.outcome = "ok"
                                                 THEN Some(p.table) ELSE None],
                             Some(p.table), _vald)
    /\ UNCHANGED << fname, store, handleOpen, ext, extIn >>

\* reader.parse_vald(vald_raw=T) for a table T of the caller
CallParseValdExt ==
    /\ ext # None
    /\ \E p \in {ParseValdOn(ext[1])} :
           /\ ext' = Some(p.table)
           /\ extIn' = ext
           /\ last' = Outcome("parse_vald_ext", p.outcome)
           /\ ret' = IF p.outcome = "ok" THEN Some(p.table) ELSE None
    /\ storeBefore' = store
    /\ fetchedNow' = 0
    /\ fetchedBefore' = (fetchedBefore \/ fetchedNow > 0)
    /\ UNCHANGED << fname, _vald_raw, _vald, version, store, handleOpen,
                    rawAtLoad, valdAtLoad >>

\* reader.to_hdf(destination)
ToHdf ==
    /\ \E env \in Envs(_vald_raw = None), io \in IoFaults :
          \E r \in {to_hdf(_vald_raw, _vald, version, fname, store, env[1],
                          env[2], io)} :
              /\ Commit("to_hdf", r, r.raw, r.parsed)
              /\ store' = r.tables
              /\ handleOpen' = r.open
    /\ UNCHANGED << fname, ext, extIn >>

Next ==
    \/ Construct
    \/ GetValdRaw
    \/ GetVald
    \/ CallReadValdRaw
    \/ CallParseVald
    \/ CallParseValdOwn
    \/ ToHdf

Spec == Init /\ [][Next]_vars

\* the properties and the export alone
NextAcc ==
    \/ Construct
    \/ GetValdRaw
    \/ GetVald
    \/ ToHdf

SpecAcc == Init /\ [][NextAcc]_vars

\* read_vald_raw and the vald_raw property on the files of FileNames
InitRead ==
    /\ \E fn \in FileNames : Fresh(fn)
    /\ store = NoTables
    /\ handleOpen = FALSE
    /\ ext = None
    /\ extIn = None
    /\ last = Outcome("__init__", "ok")
    /\ storeBefore = store

NextRead ==
    \/ GetValdRaw
    \/ CallReadValdRaw

SpecRead == InitRead /\ [][NextRead]_vars

\* parse_vald on the tables a caller can hand it
ElmIonValues ==
    { <<"'", "T", "O", " ", "1", "'">>,
      <<"'", "T", "O", "'">>,
      <<"'", "T", " ", "O", " ", "1", "'">> }

ExtRow(elm) == <<elm>> \o [c \in 1..(Len(vald_columns) - 1) |-> <<"1">>]

ExtTables ==
    { Table(vald_columns, [r \in 1..Len(elms) |-> ExtRow(elms[r])]) :
        elms \in UNION {[1..k -> ElmIonValues] : k \in 0..MaxExtRows} }

InitParse ==
    /\ Fresh(<<>>)
    /\ store = NoTables
    /\ handleOpen = FALSE
    /\ \E t \in ExtTables : ext = Some(t)
    /\ extIn = None
    /\ last = Outcome("__init__", "ok")
    /\ storeBefore = store

NextParse == CallParseValdExt

SpecParse == InitParse /\ [][NextParse]_vars

(* ------------------------------ claims -------------------------------- *)

IsReaderOp == last.op # "__init__"

\* C1, as stated: over accesses to vald_raw and vald and calls of to_hdf,
\* one instance invokes the fetcher at most once, and every successful
\* access returns the table that was cached first.
C1_FetcherInvokedAtMostOnce ==
    /\ fetchedNow <= 1
    /\ fetchedBefore => fetchedNow = 0
    /\ last = Outcome("vald_raw", "ok") => ret = rawAtLoad
    /\ last = Outcome("vald", "ok") => ret = valdAtLoad

\* C1, amended: once the raw table is cached no access and no export
\* invokes the fetcher again (an access that failed cached nothing, and the
\* next one fetches again); every successful access to vald_raw returns
\* the raw table as it was first cached, and every successful access to
\* vald the parsed table as it was first cached.
C1_NoFetchOnceCached ==
    [][ IsReaderOp' =>
          /\ _vald_raw # None => fetchedNow' = 0
          /\ last' = Outcome("vald_raw", "ok") => ret' = rawAtLoad' /\ ret' # None
          /\ last' = Outcome("vald", "ok") => ret' = valdAtLoad' /\ ret' # None
      ]_vars

\* a later access served from the cache, after the parsed table was built
C1_Witness ==
    /\ last = Outcome("vald_raw", "ok")
    /\ fetchedNow = 0
    /\ fetchedBefore
    /\ _vald # None

\* C2: after a successful to_hdf the store holds exactly the two tables
\* /vald_raw and /vald, equal to the reader's raw and parsed tables, and
\* nothing of what the destination held before.
C2_ExportHoldsExactlyTheTwoTables ==
    last = Outcome("to_hdf", "ok") =>
        /\ _vald_raw # None
        /\ _vald # None
        /\ DOMAIN store = {"/vald_raw", "/vald"}
        /\ store["/vald_raw"] = _vald_raw[1]
        /\ store["/vald"] = _vald[1]

\* an export over the export of another reader
C2_Witness ==
    /\ last = Outcome("to_hdf", "ok")
    /\ DOMAIN storeBefore = {"/vald_raw", "/vald"}
    /\ storeBefore["/vald_raw"] # store["/vald_raw"]
    /\ storeBefore["/vald"] # store["/vald"]

\* C3: no state after a to_hdf call, however it ended, has the handle on
\* the destination open.
C3_HandleReleasedOnEveryExit == handleOpen = FALSE

\* an export that failed in the parse it triggered, after the first put
C3_Witness ==
    /\ last = Outcome("to_hdf", "ValueError")
    /\ DOMAIN store = {"/vald_raw"}
    /\ handleOpen = FALSE

SpacesIn(cell) == Len(SelectSeq(cell, LAMBDA ch : ch = " "))
FirstSpace(cell) == CHOOSE i \in 1..Len(cell) :
                        cell[i] = " " /\ \A j \in 1..(i - 1) : cell[j] # " "
BeforeFirstSpace(cell) == SubSeq(cell, 1, FirstSpace(cell) - 1)
AfterFirstSpace(cell) == SubSeq(cell, FirstSpace(cell) + 1, Len(cell))

\* the quote-stripped elm_ion values of the table parse_vald was handed
ElmIonIn == [r \in 1..Len(extIn[1].rows) |->
                StrReplace(Column(extIn[1], "elm_ion")[r], "'")]

ParseValdCalled ==
    /\ last.op = "parse_vald_ext"
    /\ extIn # None
    /\ HasCol(extIn[1], "elm_ion")

ReturnedParsedTable ==
    /\ last.outcome = "ok"
    /\ ret # None
    /\ Len(ret[1].cols) = Len(extIn[1].cols) + 1
    /\ ~HasCol(ret[1], "elm_ion")
    /\ HasCol(ret[1], "molecule")
    /\ HasCol(ret[1], "ion_charge")
    /\ Len(ret[1].rows) = Len(extIn[1].rows)

\* C4: a value with more than one space is split on its first space only:
\* parse_vald raises nothing and returns the table with molecule the text
\* before the first space and ion_charge all the text after it.
C4_SplitOnFirstSpaceOnly ==
    (ParseValdCalled /\ \E r \in DOMAIN ElmIonIn : SpacesIn(ElmIonIn[r]) > 1) =>
        /\ ReturnedParsedTable
        /\ \A r \in DOMAIN ElmIonIn :
              SpacesIn(ElmIonIn[r]) > 1 =>
                  /\ Column(ret[1], "molecule")[r] = BeforeFirstSpace(ElmIonIn[r])
                  /\ Column(ret[1], "ion_charge")[r] = AfterFirstSpace(ElmIonIn[r])

\* C5: parse_vald raises nothing when values hold no space, also when no
\* value of the table holds one: such a row gets the whole value as its
\* molecule and a missing ion_charge.
C5_NoSpaceGivesMissingIonCharge ==
    ( /\ ParseValdCalled
      /\ \A r \in DOMAIN ElmIonIn : SpacesIn(ElmIonIn[r]) <= 1
      /\ \E r \in DOMAIN ElmIonIn : SpacesIn(ElmIonIn[r]) = 0 ) =>
        /\ ReturnedParsedTable
        /\ \A r \in DOMAIN ElmIonIn :
              SpacesIn(ElmIonIn[r]) = 0 =>
                  /\ Column(ret[1], "molecule")[r] = ElmIonIn[r]
                  /\ Column(ret[1], "ion_charge")[r] = NaN

\* the lines read_csv is given for a file: the matches joined by newlines
MatchedLines(fn) ==
    SelectSeq(SplitOn("\n", Join(<<"\n">>, FindAll(FileText(fn)))),
              LAMBDA l : l # <<>>)

\* the fields of a line, the empty one after a closing comma not counted
FieldsOf(line) ==
    IF line[Len(line)] = "," THEN Len(SplitOn(",", line)) - 1
    ELSE Len(SplitOn(",", line))

HasShortRow(fn) ==
    \E i \in 1..Len(MatchedLines(fn)) :
        FieldsOf(MatchedLines(fn)[i]) < Len(vald_columns)

\* a line after the first with more fields than the first and than the
\* columns, the empty field after a closing comma counted
HasOverlongRow(fn) ==
    \E i \in 2..Len(MatchedLines(fn)) :
        Len(SplitOn(",", MatchedLines(fn)[i])) >
            Max(Len(SplitOn(",", MatchedLines(fn)[1])), Len(vald_columns))

\* a first access to vald_raw whose fetch succeeded
FirstAccessFetched ==
    /\ last.op = "vald_raw"
    /\ fetchedNow = 1
    /\ last.outcome # "FetchError"

\* C6: when nothing in the fetched buffer matches the row pattern the first
\* access to vald_raw raises nothing: it returns, and caches, a table of
\* the 13 columns and no row.
C6_NoMatchGivesEmptyRawTable ==
    (FirstAccessFetched /\ FindAll(FileText(fname)) = <<>>) =>
        /\ last.outcome = "ok"
        /\ ret = Some(Table(vald_columns, <<>>))
        /\ _vald_raw = ret
        /\ Len(vald_columns) = 13

\* a file of lines none of which matches
C6_Witness ==
    /\ last = Outcome("vald_raw", "ok")
    /\ fetchedNow = 1
    /\ Len(fname) = MaxLines
    /\ FindAll(FileText(fname)) = <<>>
    /\ _vald_raw # None

C8_StateOnlyMovesForward ==
    [][ IsReaderOp' =>
          /\ _vald_raw # None => _vald_raw' # None
          /\ _vald # None => _vald' # None
          /\ _vald' # None => _vald_raw' # None
      ]_vars

\* an operation on a reader that has both tables cached
C8_Witness ==
    /\ _vald # None
    /\ _vald_raw # None
    /\ last.op = "parse_vald_own"
    /\ fetchedBefore

\* C9: the raw table is never changed after it is first computed, also by
\* parse_vald called with it: it keeps its 13 columns and its elm_ion
\* values.
C9_RawTableNeverMutated ==
    _vald_raw # None =>
        /\ _vald_raw[1].cols = vald_columns
        /\ _vald_raw = rawAtLoad

\* C10: a to_hdf that fails in the fetch leaves the destination emptied of
\* what it held and the reader with both caches empty.
C10_FailedFetchLeavesEmptiedStore ==
    last = Outcome("to_hdf", "FetchError") =>
        /\ store = NoTables
        /\ _vald_raw = None
        /\ _vald = None

\* a failed export over a destination that held an earlier export
C10_Witness ==
    /\ last = Outcome("to_hdf", "FetchError")
    /\ DOMAIN storeBefore = {"/vald_raw", "/vald"}
    /\ store = NoTables

====
